---- MODULE Spec2Model ----
(***************************************************************************)
(* attackexcel.py: seed an Excel workbook with MITRE ATT&CK techniques and *)
(* build an ATT&CK Navigator layer from an annotated worksheet.            *)
(*                                                                         *)
(* Encoding of Python values:                                              *)
(*   - a value that may be None is a sequence of length at most one:       *)
(*     None is <<>> and a present value v is <<v>> (Some(v));              *)
(*   - a list is a sequence, a set is a set, a dict is a function (record);*)
(*     a key that may be absent from a dict is absent from its DOMAIN;     *)
(*   - a worksheet written with cell(row, column, value) is a function     *)
(*     from <<row, column>> to the value;                                  *)
(*   - iterating a set visits its elements in an order that depends on the *)
(*     interpreter's string hash seed: "for x in s" may take any           *)
(*     permutation of s, and the list list(s), whose order is therefore no *)
(*     property of the program, is kept as the function that gives every   *)
(*     element its number of occurrences in the list.                      *)
(***************************************************************************)
EXTENDS Integers, Sequences, FiniteSets, TLC

VARIABLES pc, args, validated, stdout, exit_status, events,
          techniques, idx, platform_filter, sheet1, sheet2, sheet3,
          sheet1_row, sheet2_row, data_sources, saved,
          worksheet, column_map, layer_techniques, layer_template, written,
          comp_filter, calls

vars == <<pc, args, validated, stdout, exit_status, events,
          techniques, idx, platform_filter, sheet1, sheet2, sheet3,
          sheet1_row, sheet2_row, data_sources, saved,
          worksheet, column_map, layer_techniques, layer_template, written,
          comp_filter, calls>>

-----------------------------------------------------------------------------
(* Bounds of the model *)

\* longest --platformfilterin / --platformfilterout list on the command line
MaxFilterLen == 2
\* longest include / exclude list given to the filter functions directly
MaxListLen == 2
\* most techniques one fetch returns
MaxTechniques == 3
\* most data rows of the worksheet the layer command reads
MaxRows == 2
\* columns of the worksheet the layer command reads
MaxColumns == 2
\* most layer invocations on the shared template in one process
MaxLayerCalls == 2

-----------------------------------------------------------------------------
(* Python values *)

None == <<>>

Some(v) == <<v>>

Range(s) == {s[i] : i \in 1..Len(s)}

SeqsUpTo(S, n) == UNION {[1..k -> S] : k \in 0..n}

\* str(bool)
StrBool(b) == IF b THEN "True" ELSE "False"

RECURSIVE JoinRepr(_, _)
JoinRepr(list, i) ==
    IF i > Len(list) THEN ""
    ELSE (IF i > 1 THEN ", " ELSE "") \o "'" \o list[i] \o "'" \o JoinRepr(list, i + 1)

\* str(list of str): the list's repr, "['Windows', 'Linux']"
StrList(list) == "[" \o JoinRepr(list, 1) \o "]"

\* One list that enumerates a set.
RECURSIVE CanonicalList(_)
CanonicalList(S) ==
    IF S = {} THEN <<>>
    ELSE LET x == CHOOSE y \in S : TRUE IN <<x>> \o CanonicalList(S \ {x})

\* for x in s, for a set s: every element once, in any order.
SetOrders(S) == {order \in [1..Cardinality(S) -> S] : Range(order) = S}

\* list(s), for a set s: every element once; the order is left out.
ListOfSet(S) == [x \in S |-> 1]

-----------------------------------------------------------------------------
(* Module-level data *)

default_layer_template ==
    [versions |-> [attack |-> "9", navigator |-> "4.3", layer |-> "4.2"],
     domain |-> "",
     description |-> "",
     filters |-> [platforms |-> <<>>],
     sorting |-> 0,
     layout |-> [layout |-> "side", showID |-> "false", showName |-> "true"],
     hideDisabled |-> "false",
     gradient |-> [colors |-> <<"#ff6666", "#ffe766", "#8ec843">>,
                   minValue |-> 0, maxValue |-> 100],
     legendItems |-> <<>>,
     metadata |-> <<>>,
     showTacticRowBackground |-> "false",
     tacticRowBackground |-> "#dddddd",
     selectTechniquesAcrossTactics |-> "true",
     selectSubtechniquesWithParent |-> "false"]

valid_enterprise_platforms ==
    {"SaaS", "macOS", "PRE", "IaaS", "Linux", "Office 365", "Containers",
     "Google Workspace", "Windows", "Network", "Azure AD"}

valid_mobile_platforms == {"Android", "iOS"}

valid_ics_platforms ==
    {"Field Controller/RTU/PLC/IED", "Safety Instrumented System/Protection Relay",
     "Control Server", "Input/Output Server", "Windows", "Human-Machine Interface",
     "Engineering Workstation", "Data Historian"}

Domains == {"enterprise-attack", "mobile-attack", "ics-attack"}

\* choices= of --platformfilterin
AllPlatforms == valid_enterprise_platforms \cup valid_mobile_platforms \cup valid_ics_platforms

-----------------------------------------------------------------------------
(* validate_platform_filters_to_domain *)

\* for platform in platform_filter: if platform not in valid: ... return False
\* The index of the first entry that is not in valid, 0 when there is none.
RECURSIVE FirstInvalid(_, _, _)
FirstInvalid(list, valid, i) ==
    IF i > Len(list) THEN 0
    ELSE IF list[i] \notin valid THEN i
    ELSE FirstInvalid(list, valid, i + 1)

CheckPlatformsWrongSet(list, valid, label) ==
    LET i == FirstInvalid(list, AllPlatforms, 1)
    IN IF i = 0 THEN [result |-> TRUE, printed |-> <<>>]
       ELSE [result |-> FALSE,
             printed |-> <<list[i] \o " is not a valid ATT&CK platform for the "
                                   \o label \o " domain">>]

\* One domain's branch: the loop, the message it prints and what it returns.
CheckPlatforms(list, valid, label) ==
    LET i == FirstInvalid(list, valid, 1)
    IN IF i = 0 THEN [result |-> TRUE, printed |-> <<>>]
       ELSE [result |-> FALSE,
             printed |-> <<list[i] \o " is not a valid ATT&CK platform for the "
                                   \o label \o " domain">>]

validate_platform_filters_to_domain(a) ==
    LET pf_in == IF a.platformfilterin # None THEN a.platformfilterin ELSE None
        pf == IF a.platformfilterout # None THEN a.platformfilterout ELSE pf_in
    IN IF pf = None THEN [result |-> TRUE, printed |-> <<>>]
       ELSE IF a.domain = "enterprise-attack"
            THEN CheckPlatforms(pf[1], valid_enterprise_platforms, "Enterprise")
       ELSE IF a.domain = "mobile-attack"
            THEN CheckPlatforms(pf[1], valid_mobile_platforms, "Mobile")
       ELSE IF a.domain = "ics-attack"
            THEN CheckPlatforms(pf[1], valid_ics_platforms, "ICS")
       ELSE [result |-> TRUE, printed |-> <<>>]

-----------------------------------------------------------------------------
(* create_platform_filter *)

FilterForKeepsExcluded(valid, a) ==
    LET f0 == valid
        f1 == IF a.platformfilterin # None THEN Range(a.platformfilterin[1]) ELSE f0
    IN IF a.platformfilterout # None THEN Range(a.platformfilterout[1]) ELSE f1

FilterForIncludeWithinDomain(valid, a) ==
    LET f0 == valid
        f1 == IF a.platformfilterin # None
              THEN valid \cap Range(a.platformfilterin[1])
              ELSE f0
    IN IF a.platformfilterout # None THEN valid \ Range(a.platformfilterout[1]) ELSE f1

\* One domain's branch of create_platform_filter.
FilterFor(valid, a) ==
    LET f0 == valid
        f1 == IF a.platformfilterin # None THEN Range(a.platformfilterin[1]) ELSE f0
    IN IF a.platformfilterout # None THEN valid \ Range(a.platformfilterout[1]) ELSE f1

create_platform_filter(a) ==
    IF a.domain = "enterprise-attack" THEN FilterFor(valid_enterprise_platforms, a)
    ELSE IF a.domain = "mobile-attack" THEN FilterFor(valid_mobile_platforms, a)
    ELSE IF a.domain = "ics-attack" THEN FilterFor(valid_ics_platforms, a)
    ELSE {}

-----------------------------------------------------------------------------
(* seed: the loop over the fetched techniques *)

\* sheet.cell(row=row, column=column, value=value)
Cell(sheet, row, column, value) == (<<row, column>> :> value) @@ sheet

\* The header rows seed writes right after creating the sheets.
Sheet1Headers ==
    Cell(Cell(Cell(Cell(Cell(<<>>, 1, 1, "techniqueID"), 1, 2, "name"),
                   1, 3, "isSubtechnique"), 1, 4, "platforms"), 1, 5, "description")

Sheet2Headers == Cell(Cell(<<>>, 1, 1, "techniqueID"), 1, 2, "dataSourceName")

Sheet3Headers == Cell(<<>>, 1, 1, "dataSourceName")

SkipReasonIgnoresRevoked(technique, a, pf) ==
    IF technique.x_mitre_is_subtechnique /\ ~a.subtechniques THEN "subtechnique"
    ELSE IF pf \cap Range(technique.platform) = {} THEN "platform"
    ELSE "keep"

\* The three skip tests of the loop body, in the code's order.
SkipReason(technique, a, pf) ==
    IF ("revoked" \in DOMAIN technique) /\ technique.revoked THEN "revoked"
    ELSE IF technique.x_mitre_is_subtechnique /\ ~a.subtechniques THEN "subtechnique"
    ELSE IF pf \cap Range(technique.platform) = {} THEN "platform"
    ELSE "keep"

\* The message printed for a skipped technique.
SkipMessage(technique, reason) ==
    IF reason = "revoked"
    THEN "Skipping " \o technique.technique_id \o " because it was revoked."
    ELSE IF reason = "subtechnique"
    THEN "Skipping " \o technique.technique_id \o " because it is a subtechnique"
    ELSE "Skipping " \o technique.technique_id \o " because none of its platforms "
             \o StrList(technique.platform) \o " match filter."

\* if 'data_sources' in technique: for data_source in technique['data_sources']
DataSourcesOf(technique) ==
    IF "data_sources" \in DOMAIN technique THEN technique.data_sources ELSE <<>>

\* The two cells written to sheet2 for each data source of a kept technique.
RECURSIVE WriteDataSources(_, _, _, _, _)
WriteDataSources(sheet, row, id, list, i) ==
    IF i > Len(list) THEN sheet
    ELSE WriteDataSources(Cell(Cell(sheet, row, 1, id), row, 2, list[i]),
                          row + 1, id, list, i + 1)

AddDataSourcesFirstOnly(ds, technique) ==
    IF DataSourcesOf(technique) = <<>> THEN ds
    ELSE ds \cup {DataSourcesOf(technique)[1]}

\* data_sources.add(data_source) for each data source of a kept technique
AddDataSources(ds, technique) == ds \cup Range(DataSourcesOf(technique))

\* The cells written to sheet1 for a kept technique.
WriteTechnique(sheet, row, technique) ==
    LET s4 == Cell(Cell(Cell(Cell(sheet, row, 1, technique.technique_id),
                             row, 2, technique.technique),
                        row, 3, StrBool(technique.x_mitre_is_subtechnique)),
                   row, 4, StrList(technique.platform))
    IN IF "technique_description" \in DOMAIN technique
       THEN Cell(s4, row, 5, technique.technique_description)
       ELSE s4

\* print(f'Excel workbook created at ... with {sheet1_row-1} techniques.')
SeedMessage(a, row) ==
    "Excel workbook created at '" \o a.outfile \o "' with "
        \o ToString(row - 1) \o " techniques."

\* The rows of sheet3: one per element of data_sources, from row 2 on.
RECURSIVE WriteSheet3(_, _, _)
WriteSheet3(sheet, order, i) ==
    IF i > Len(order) THEN sheet
    ELSE WriteSheet3(Cell(sheet, i + 1, 1, order[i]), order, i + 1)

-----------------------------------------------------------------------------
(* layer: column mapping, rows, document *)

RecognizedHeaders == {"techniqueID", "color", "enabled", "score", "comment"}

\* for cell in column_headers: if cell.value in [...]: column_map[cell.value] = column
RECURSIVE ColumnMap(_, _, _)
ColumnMap(column_headers, i, map) ==
    IF i > Len(column_headers) THEN map
    ELSE ColumnMap(column_headers, i + 1,
                   IF column_headers[i] # None /\ column_headers[i][1] \in RecognizedHeaders
                   THEN (column_headers[i][1] :> (i - 1)) @@ map
                   ELSE map)

RowTechniqueOmitsEmpty(map, row) ==
    [header \in {h \in DOMAIN map : row[map[h] + 1] # None} |-> row[map[header] + 1]]

\* technique[header] = row[column].value for every mapped header
RowTechnique(map, row) == [header \in DOMAIN map |-> row[map[header] + 1]]

\* for row in worksheet.iter_rows(min_row=2): techniques.append(technique)
LayerTechniques(ws, map) == [r \in 1..(Len(ws) - 1) |-> RowTechnique(map, ws[r + 1])]

\* dict[key] = value
SetKey(d, key, value) == (key :> value) @@ d

LayerDocumentKeepsDescription(template, a, techs, platforms) ==
    LET t1 == SetKey(template, "name", a.name)
        t2 == SetKey(t1, "domain", a.domain)
        t3 == IF a.description # "" THEN SetKey(t2, "description", a.description) ELSE t2
        t4 == SetKey(t3, "techniques", techs)
    IN SetKey(t4, "filters", SetKey(t4.filters, "platforms", platforms))

\* The five assignments to layer_template, which is default_layer_template itself.
LayerDocument(template, a, techs, platforms) ==
    LET t1 == SetKey(template, "name", a.name)
        t2 == SetKey(t1, "domain", a.domain)
        t3 == SetKey(t2, "description", a.description)
        t4 == SetKey(t3, "techniques", techs)
    IN SetKey(t4, "filters", SetKey(t4.filters, "platforms", platforms))

\* print(f'ATT&CK Navigator layer file written to ... with {len(techniques)} techniques')
LayerMessage(a, techs) ==
    "ATT&CK Navigator layer file written to '" \o a.outfile \o "' with "
        \o ToString(Len(techs)) \o " techniques"

-----------------------------------------------------------------------------
(* main: the test that guards the call of the subcommand *)

DispatchAlways(result) == TRUE

\* if validate_platform_filters_to_domain(args): args.func(args)
Dispatch(result) == result

-----------------------------------------------------------------------------
(* Inputs *)

\* The platform names the modelled command lines draw their filters from:
\* one of the Enterprise and ICS domains, one of Mobile and one of ICS only.
CliPlatforms == {"Windows", "iOS", "Control Server"}

\* nargs='+': a filter option carries at least one value
CliLists(choices) == SeqsUpTo(choices \cap CliPlatforms, MaxFilterLen) \ {<<>>}

\* The filter options argparse accepts: the two are mutually exclusive,
\* --platformfilterout takes Enterprise platforms only, --platformfilterin any.
CliFilters ==
    {[platformfilterin |-> None, platformfilterout |-> None]}
      \cup {[platformfilterin |-> Some(l), platformfilterout |-> None] :
                l \in CliLists(AllPlatforms)}
      \cup {[platformfilterin |-> None, platformfilterout |-> Some(l)] :
                l \in CliLists(valid_enterprise_platforms)}

\* Namespace of the seed subcommand
SeedArgs ==
    {[func |-> "seed", outfile |-> "attack.xlsx", domain |-> d, subtechniques |-> st,
      platformfilterin |-> f.platformfilterin, platformfilterout |-> f.platformfilterout] :
        d \in Domains, st \in BOOLEAN, f \in CliFilters}

\* Namespace of the layer subcommand
LayerArgsFor(names, descriptions, filters) ==
    {[func |-> "layer", infile |-> "attack.xlsx", outfile |-> "layer.json",
      worksheet |-> "techniques", domain |-> d, name |-> n, description |-> ds,
      platformfilterin |-> f.platformfilterin, platformfilterout |-> f.platformfilterout] :
        d \in Domains, n \in names, ds \in descriptions, f \in filters}

\* The filter options of the modelled layer command lines.
LayerFilters ==
    {[platformfilterin |-> None, platformfilterout |-> None],
     [platformfilterin |-> Some(<<"iOS">>), platformfilterout |-> None],
     [platformfilterin |-> None, platformfilterout |-> Some(<<"Windows">>)]}

LayerArgs == LayerArgsFor({"Attackexcel Layer"}, {""}, LayerFilters)

\* len(sys.argv) == 1: the command line has no argument, nothing is parsed
NoArguments == [func |-> "none"]

\* Technique records as the ATT&CK client returns them (stix_format=False).
TechniquePool ==
    {[technique_id |-> "T1059", technique |-> "Command and Scripting Interpreter",
      x_mitre_is_subtechnique |-> FALSE, platform |-> <<"Windows", "Linux">>,
      data_sources |-> <<"Process", "Command">>,
      technique_description |-> "Adversaries may abuse interpreters."],
     [technique_id |-> "T1059.001", technique |-> "PowerShell",
      x_mitre_is_subtechnique |-> TRUE, platform |-> <<"Windows">>,
      revoked |-> FALSE, data_sources |-> <<"Process", "Module">>],
     [technique_id |-> "T1086", technique |-> "PowerShell (revoked)",
      x_mitre_is_subtechnique |-> FALSE, platform |-> <<"Windows">>,
      revoked |-> TRUE, data_sources |-> <<"Script">>],
     [technique_id |-> "T1456", technique |-> "Drive-By Compromise",
      x_mitre_is_subtechnique |-> FALSE, platform |-> <<"Android", "iOS">>],
     [technique_id |-> "T0800", technique |-> "Activate Firmware Update Mode",
      x_mitre_is_subtechnique |-> FALSE, platform |-> <<"Control Server">>,
      data_sources |-> <<"Command">>]}

\* What one fetch can return: an ordered sequence of technique records.
TechniqueLists == SeqsUpTo(TechniquePool, MaxTechniques)

\* Values of the header cells of the worksheet (None: an empty cell).
HeaderValues == {Some("techniqueID"), Some("color"), Some("Color"), None}

\* Values of the data cells of the worksheet.
CellValues == {Some("T1059"), None}

\* A worksheet as the layer command reads it: a header row and the data rows,
\* each a sequence of cell values.
Worksheets ==
    {<<h>> \o rows : h \in [1..MaxColumns -> HeaderValues],
                     rows \in SeqsUpTo([1..MaxColumns -> CellValues], MaxRows)}

-----------------------------------------------------------------------------
(* The program: main() *)

Init ==
    /\ pc = "main"
    /\ args \in SeedArgs \cup LayerArgs \cup {NoArguments}
    /\ validated = "pending"
    /\ stdout = <<>>
    /\ exit_status = -1
    /\ events = <<>>
    /\ techniques = <<>>
    /\ idx = 0
    /\ platform_filter = None
    /\ sheet1 = <<>>
    /\ sheet2 = <<>>
    /\ sheet3 = <<>>
    /\ sheet1_row = 0
    /\ sheet2_row = 0
    /\ data_sources = {}
    /\ saved = None
    /\ worksheet = <<>>
    /\ column_map = <<>>
    /\ layer_techniques = <<>>
    /\ layer_template = default_layer_template
    /\ written = None
    /\ comp_filter = None
    /\ calls = 0

seed_vars == <<techniques, idx, platform_filter, sheet1, sheet2, sheet3,
               sheet1_row, sheet2_row, data_sources, saved>>

layer_vars == <<worksheet, column_map, layer_techniques, layer_template, written>>

\* if len(sys.argv) == 1: parser.print_help(sys.stderr); sys.exit(1)
MainNoArguments ==
    /\ pc = "main"
    /\ args = NoArguments
    /\ pc' = "done"
    /\ exit_status' = 1
    /\ UNCHANGED <<args, validated, stdout, events, seed_vars, layer_vars,
                   comp_filter, calls>>

\* if validate_platform_filters_to_domain(args): args.func(args)
\* When the test fails main returns, and the interpreter exits with status 0.
MainValidate ==
    /\ pc = "main"
    /\ args # NoArguments
    /\ LET v == validate_platform_filters_to_domain(args)
       IN /\ stdout' = stdout \o v.printed
          /\ validated' = IF v.result THEN "passed" ELSE "failed"
          /\ IF Dispatch(v.result)
             THEN pc' = args.func /\ exit_status' = exit_status
             ELSE pc' = "done" /\ exit_status' = 0
    /\ UNCHANGED <<args, events, seed_vars, layer_vars, comp_filter, calls>>

\* seed, up to the loop: fetch the techniques, create the workbook, its sheets
\* and headers, the empty data_sources set, the row counters and the filter.
SeedFetch ==
    /\ pc = "seed"
    /\ \E fetched \in TechniqueLists : techniques' = fetched
    /\ events' = Append(events, "fetch")
    /\ sheet1' = Sheet1Headers
    /\ sheet2' = Sheet2Headers
    /\ sheet3' = Sheet3Headers
    /\ data_sources' = {}
    /\ sheet1_row' = 2
    /\ sheet2_row' = 2
    /\ platform_filter' = Some(create_platform_filter(args))
    /\ idx' = 1
    /\ pc' = "seed_loop"
    /\ UNCHANGED <<args, validated, stdout, exit_status, saved, layer_vars,
                   comp_filter, calls>>

\* One iteration of "for technique in techniques".
SeedLoop ==
    /\ pc = "seed_loop"
    /\ idx <= Len(techniques)
    /\ LET technique == techniques[idx]
           reason == SkipReason(technique, args, platform_filter[1])
       IN IF reason # "keep"
          THEN /\ stdout' = Append(stdout, SkipMessage(technique, reason))
               /\ UNCHANGED <<sheet1, sheet2, sheet1_row, sheet2_row, data_sources>>
          ELSE /\ sheet1' = WriteTechnique(sheet1, sheet1_row, technique)
               /\ sheet2' = WriteDataSources(sheet2, sheet2_row, technique.technique_id,
                                             DataSourcesOf(technique), 1)
               /\ sheet2_row' = sheet2_row + Len(DataSourcesOf(technique))
               /\ data_sources' = AddDataSources(data_sources, technique)
               /\ sheet1_row' = sheet1_row + 1
               /\ stdout' = stdout
    /\ idx' = idx + 1
    /\ UNCHANGED <<pc, args, validated, exit_status, events, techniques,
                   platform_filter, sheet3, saved, layer_vars, comp_filter, calls>>

\* seed, after the loop: the dataSources sheet, workbook.save, the final
\* message; seed and main return and the interpreter exits with status 0.
SeedFinish ==
    /\ pc = "seed_loop"
    /\ idx > Len(techniques)
    /\ \E order \in SetOrders(data_sources) :
          /\ sheet3' = WriteSheet3(sheet3, order, 1)
          /\ saved' = Some([Sheet |-> <<>>, techniques |-> sheet1,
                            techniquesToDataSources |-> sheet2,
                            dataSources |-> sheet3'])
    /\ events' = Append(events, "write")
    /\ stdout' = Append(stdout, SeedMessage(args, sheet1_row))
    /\ pc' = "done"
    /\ exit_status' = 0
    /\ UNCHANGED <<args, validated, techniques, idx, platform_filter, sheet1, sheet2,
                   sheet1_row, sheet2_row, data_sources, layer_vars, comp_filter, calls>>

\* layer, up to the template: load the workbook, map the header row, read the
\* data rows.
LayerLoad ==
    /\ pc = "layer"
    /\ \E ws \in Worksheets :
          /\ worksheet' = ws
          /\ column_map' = ColumnMap(ws[1], 1, <<>>)
          /\ layer_techniques' = LayerTechniques(ws, column_map')
    /\ events' = Append(events, "load")
    /\ pc' = "layer_write"
    /\ UNCHANGED <<args, validated, stdout, exit_status, seed_vars, layer_template,
                   written, comp_filter, calls>>

\* layer, from the template on: update the shared template, write it as JSON,
\* print the final message; layer and main return, exit status 0.
LayerWrite ==
    /\ pc = "layer_write"
    /\ layer_template' = LayerDocument(layer_template, args, layer_techniques,
                                       ListOfSet(create_platform_filter(args)))
    /\ written' = Some(layer_template')
    /\ events' = Append(events, "write")
    /\ stdout' = Append(stdout, LayerMessage(args, layer_techniques))
    /\ pc' = "done"
    /\ exit_status' = 0
    /\ UNCHANGED <<args, validated, seed_vars, worksheet, column_map, layer_techniques,
                   comp_filter, calls>>

Next ==
    \/ MainNoArguments
    \/ MainValidate
    \/ SeedFetch
    \/ SeedLoop
    \/ SeedFinish
    \/ LayerLoad
    \/ LayerWrite

Spec == Init /\ [][Next]_vars

-----------------------------------------------------------------------------
(* The two platform functions on their own: every domain, every list *)

\* The valid-platform set of a domain.
FullSet(domain) ==
    IF domain = "enterprise-attack" THEN valid_enterprise_platforms
    ELSE IF domain = "mobile-attack" THEN valid_mobile_platforms
    ELSE valid_ics_platforms

\* Platform names of the short lists: of Enterprise and ICS, of Enterprise
\* only, the two of Mobile, and of ICS only.
ListPlatforms == {"Windows", "PRE", "iOS", "Android", "Control Server"}

\* The lists the functions are applied to: every short list over ListPlatforms
\* (repeats and names of other domains included) and, for each domain, one
\* list for every subset of its valid platforms.
FilterLists(domain) ==
    SeqsUpTo(ListPlatforms, MaxListLen)
      \cup {CanonicalList(S) : S \in SUBSET FullSet(domain)}

FilterArgs ==
    {[domain |-> d, platformfilterin |-> None, platformfilterout |-> None] : d \in Domains}
      \cup UNION {{[domain |-> d, platformfilterin |-> Some(l), platformfilterout |-> None] :
                      l \in FilterLists(d)} : d \in Domains}
      \cup UNION {{[domain |-> d, platformfilterin |-> None, platformfilterout |-> Some(l)] :
                      l \in FilterLists(d)} : d \in Domains}

InitFilter ==
    /\ pc = "filter"
    /\ args \in FilterArgs
    /\ validated = "pending"
    /\ stdout = <<>>
    /\ exit_status = -1
    /\ events = <<>>
    /\ techniques = <<>>
    /\ idx = 0
    /\ platform_filter = None
    /\ sheet1 = <<>>
    /\ sheet2 = <<>>
    /\ sheet3 = <<>>
    /\ sheet1_row = 0
    /\ sheet2_row = 0
    /\ data_sources = {}
    /\ saved = None
    /\ worksheet = <<>>
    /\ column_map = <<>>
    /\ layer_techniques = <<>>
    /\ layer_template = default_layer_template
    /\ written = None
    /\ comp_filter = None
    /\ calls = 0

\* validate_platform_filters_to_domain(args)
FilterValidate ==
    /\ pc = "filter"
    /\ validated = "pending"
    /\ LET v == validate_platform_filters_to_domain(args)
       IN /\ stdout' = stdout \o v.printed
          /\ validated' = IF v.result THEN "passed" ELSE "failed"
    /\ UNCHANGED <<pc, args, exit_status, events, seed_vars, layer_vars,
                   comp_filter, calls>>

\* create_platform_filter(args)
FilterCreate ==
    /\ pc = "filter"
    /\ platform_filter = None
    /\ platform_filter' = Some(create_platform_filter(args))
    /\ UNCHANGED <<pc, args, validated, stdout, exit_status, events, techniques, idx,
                   sheet1, sheet2, sheet3, sheet1_row, sheet2_row, data_sources, saved,
                   layer_vars, comp_filter, calls>>

\* create_platform_filter on the complementary input: when args holds an
\* include list S of platforms valid for the domain, the same domain with the
\* exclude list fullSet(domain) - S.
FilterComplement ==
    /\ pc = "filter"
    /\ comp_filter = None
    /\ args.platformfilterin # None
    /\ args.platformfilterout = None
    /\ Range(args.platformfilterin[1]) \subseteq FullSet(args.domain)
    /\ comp_filter' = Some(create_platform_filter(
            [domain |-> args.domain, platformfilterin |-> None,
             platformfilterout |->
                 Some(CanonicalList(FullSet(args.domain) \ Range(args.platformfilterin[1])))]))
    /\ UNCHANGED <<pc, args, validated, stdout, exit_status, events, seed_vars,
                   layer_vars, calls>>

NextFilter ==
    \/ FilterValidate
    \/ FilterCreate
    \/ FilterComplement

SpecFilter == InitFilter /\ [][NextFilter]_vars

-----------------------------------------------------------------------------
(* layer called repeatedly in one process, on the one shared template *)

LayerCallFilters ==
    {[platformfilterin |-> None, platformfilterout |-> None],
     [platformfilterin |-> Some(<<"Windows">>), platformfilterout |-> None],
     [platformfilterin |-> None, platformfilterout |-> Some(<<"PRE">>)]}

LayerCallArgs ==
    LayerArgsFor({"Attackexcel Layer", "Test"}, {"", "control gaps"}, LayerCallFilters)

\* Worksheets with the headers techniqueID and color and up to MaxRows rows.
LayerCallWorksheets ==
    {[r \in 1..(n + 1) |->
        [c \in 1..MaxColumns |->
            IF r > 1 THEN Some("T1059")
            ELSE IF c = 1 THEN Some("techniqueID") ELSE Some("color")]] : n \in 0..MaxRows}

InitLayerCalls ==
    /\ pc = "layer_calls"
    /\ args = NoArguments
    /\ validated = "pending"
    /\ stdout = <<>>
    /\ exit_status = -1
    /\ events = <<>>
    /\ techniques = <<>>
    /\ idx = 0
    /\ platform_filter = None
    /\ sheet1 = <<>>
    /\ sheet2 = <<>>
    /\ sheet3 = <<>>
    /\ sheet1_row = 0
    /\ sheet2_row = 0
    /\ data_sources = {}
    /\ saved = None
    /\ worksheet = <<>>
    /\ column_map = <<>>
    /\ layer_techniques = <<>>
    /\ layer_template = default_layer_template
    /\ written = None
    /\ comp_filter = None
    /\ calls = 0

\* layer(args), the whole function, for the arguments and worksheet of this call
LayerCall ==
    /\ pc = "layer_calls"
    /\ calls < MaxLayerCalls
    /\ \E a \in LayerCallArgs, ws \in LayerCallWorksheets :
          /\ args' = a
          /\ worksheet' = ws
          /\ column_map' = ColumnMap(ws[1], 1, <<>>)
          /\ layer_techniques' = LayerTechniques(ws, column_map')
          /\ layer_template' = LayerDocument(layer_template, a, layer_techniques',
                                             ListOfSet(create_platform_filter(a)))
          /\ written' = Some(layer_template')
          /\ stdout' = Append(stdout, LayerMessage(a, layer_techniques'))
    /\ events' = events \o <<"load", "write">>
    /\ calls' = calls + 1
    /\ UNCHANGED <<pc, validated, exit_status, seed_vars, comp_filter>>

NextLayerCalls == LayerCall

SpecLayerCalls == InitLayerCalls /\ [][NextLayerCalls]_vars

-----------------------------------------------------------------------------
(* Properties *)

\* The data rows of a sheet: every row with a cell, except the header row.
DataRows(sheet) == {rc[1] : rc \in DOMAIN sheet} \ {1}

\* The platform filter the documentation gives for a domain and its lists.
ExpectedFilter(a) ==
    IF a.platformfilterin # None THEN Range(a.platformfilterin[1])
    ELSE IF a.platformfilterout # None THEN FullSet(a.domain) \ Range(a.platformfilterout[1])
    ELSE FullSet(a.domain)

\* A technique the documentation says seed keeps.
Kept(t, a) ==
    /\ ~(("revoked" \in DOMAIN t) /\ t.revoked)
    /\ (t.x_mitre_is_subtechnique => a.subtechniques)
    /\ Range(t.platform) \cap ExpectedFilter(a) # {}

\* The (technique id, data source) pairs of the kept techniques, in order.
RECURSIVE KeptPairs(_, _, _)
KeptPairs(list, a, i) ==
    IF i > Len(list) THEN <<>>
    ELSE (IF Kept(list[i], a) /\ ("data_sources" \in DOMAIN list[i])
          THEN [j \in 1..Len(list[i].data_sources) |->
                    <<list[i].technique_id, list[i].data_sources[j]>>]
          ELSE <<>>) \o KeptPairs(list, a, i + 1)

\* The data-source names of the kept techniques.
KeptDataSources(list, a) == {p[2] : p \in Range(KeptPairs(list, a, 1))}

\* The name the validation message gives a domain.
DomainLabel(domain) ==
    IF domain = "enterprise-attack" THEN "Enterprise"
    ELSE IF domain = "mobile-attack" THEN "Mobile"
    ELSE "ICS"

\* The list validation looks at: whichever of the two lists is given.
GivenList(a) ==
    IF a.platformfilterout # None THEN a.platformfilterout[1] ELSE a.platformfilterin[1]

\* C1: no row of the 'techniques' sheet, while seed runs or in the saved
\* workbook, is a technique that is revoked, that is a subtechnique when
\* subtechniques are disabled, or whose platforms share nothing with the
\* active platform filter.
C1_SeedNeverEmitsFiltered ==
    \A r \in DataRows(sheet1) : \A i \in 1..Len(techniques) :
        techniques[i].technique_id = sheet1[<<r, 1>>]
            => /\ ~(("revoked" \in DOMAIN techniques[i]) /\ techniques[i].revoked)
               /\ (techniques[i].x_mitre_is_subtechnique => args.subtechniques)
               /\ Range(techniques[i].platform) \cap ExpectedFilter(args) # {}

\* A workbook was saved with a technique row while some fetched technique was
\* skipped.
C1_Witness ==
    /\ saved # None
    /\ DataRows(saved[1].techniques) # {}
    /\ \E i \in 1..Len(techniques) : ~Kept(techniques[i], args)

\* C2: when platform validation fails the program ends with a nonzero exit
\* status after printing a message that names the invalid platform, and it
\* ends with exit status 0 only when the subcommand succeeded.
C2_ValidationFailureExitsNonzero ==
    pc = "done" =>
        /\ validated = "failed"
              => /\ exit_status # 0
                 /\ \E i \in 1..Len(GivenList(args)) :
                       /\ GivenList(args)[i] \notin FullSet(args.domain)
                       /\ stdout = <<GivenList(args)[i]
                                        \o " is not a valid ATT&CK platform for the "
                                        \o DomainLabel(args.domain) \o " domain">>
        /\ exit_status = 0 => (saved # None \/ written # None)

\* C3: the count in seed's final message is the number of technique rows in
\* the 'techniques' sheet of the saved workbook.
C3_ReportedCountIsRowsWritten ==
    (pc = "done" /\ saved # None) =>
        stdout[Len(stdout)] =
            "Excel workbook created at '" \o args.outfile \o "' with "
                \o ToString(Cardinality(DataRows(saved[1].techniques))) \o " techniques."

\* C4: with no list validation succeeds and prints nothing; with a list it
\* fails exactly when some entry is not in the domain's valid-platform set, and
\* then the one message printed names the first such entry, in list order, and
\* the domain.
C4_ValidationRejectsForeignPlatforms ==
    validated # "pending" =>
        IF args.platformfilterin = None /\ args.platformfilterout = None
        THEN validated = "passed" /\ stdout = <<>>
        ELSE LET list == GivenList(args)
                 bad == {i \in 1..Len(list) : list[i] \notin FullSet(args.domain)}
             IN /\ (validated = "failed") <=> (bad # {})
                /\ bad = {} => stdout = <<>>
                /\ bad # {} =>
                      LET first == CHOOSE i \in bad : \A j \in bad : i <= j
                      IN stdout = <<list[first] \o " is not a valid ATT&CK platform for the "
                                        \o DomainLabel(args.domain) \o " domain">>

\* Validation failed on a list whose first entry is valid for the domain.
C4_Witness ==
    /\ validated = "failed"
    /\ Len(GivenList(args)) >= 2
    /\ GivenList(args)[1] \in FullSet(args.domain)

\* C5: for a set S of platforms valid for the domain, the include list S and
\* the exclude list fullSet(domain) - S give the same platform filter.
C5_IncludeEqualsComplementExclude ==
    (platform_filter # None /\ comp_filter # None) => platform_filter[1] = comp_filter[1]

\* Both filters were computed for an S that is neither empty nor the full set.
C5_Witness ==
    /\ platform_filter # None
    /\ comp_filter # None
    /\ args.platformfilterin # None
    /\ Range(args.platformfilterin[1]) \notin {{}, FullSet(args.domain)}

\* C6: create_platform_filter returns set(includeList) when an include list
\* is given, the domain's valid set minus set(excludeList) when an exclude list
\* is given, and the domain's full valid set when neither is given.
C6_FilterIsIncludeOrDomainMinusExclude ==
    platform_filter # None =>
        /\ args.platformfilterin # None
              => platform_filter[1] = Range(args.platformfilterin[1])
        /\ (args.platformfilterin = None /\ args.platformfilterout # None)
              => platform_filter[1] = FullSet(args.domain) \ Range(args.platformfilterout[1])
        /\ (args.platformfilterin = None /\ args.platformfilterout = None)
              => platform_filter[1] = FullSet(args.domain)

\* A filter was computed from an include list with an entry of another domain.
C6_Witness ==
    /\ pc = "filter"
    /\ platform_filter # None
    /\ args.platformfilterin # None
    /\ ~(Range(args.platformfilterin[1]) \subseteq FullSet(args.domain))
    /\ Range(args.platformfilterin[1]) \cap FullSet(args.domain) # {}

\* C7: the techniques list of the written layer has one entry per data row of
\* the worksheet, in row order; the keys of every entry are exactly the
\* recognized header names that occur in the header row, and the value under a
\* key is the row's cell in a column with that header, None for an empty cell.
C7_LayerRowsAndKeys ==
    (pc = "done" /\ written # None) =>
        LET techs == written[1].techniques
            present == {h \in RecognizedHeaders :
                           \E c \in 1..Len(worksheet[1]) : worksheet[1][c] = Some(h)}
        IN /\ Len(techs) = Len(worksheet) - 1
           /\ \A r \in 1..Len(techs) :
                 /\ DOMAIN techs[r] = present
                 /\ \A h \in present :
                       \E c \in 1..Len(worksheet[1]) :
                          /\ worksheet[1][c] = Some(h)
                          /\ techs[r][h] = worksheet[r + 1][c]

\* A layer was written from two data rows, with an unrecognized header in the
\* header row and an empty cell under a recognized one.
C7_Witness ==
    /\ pc = "done"
    /\ written # None
    /\ Len(written[1].techniques) = 2
    /\ \E c \in 1..Len(worksheet[1]) : worksheet[1][c] = Some("Color")
    /\ \E r \in 1..2 : \E h \in DOMAIN written[1].techniques[r] :
          written[1].techniques[r][h] = None

\* C8: after any sequence of layer invocations, the written document has the
\* template's keys plus name and techniques; name, domain, description,
\* techniques and filters.platforms hold this invocation's arguments, rows and
\* platform filter; every other field has its template value, the
\* boolean-like fields being the strings "true" / "false".
C8_LayerOnlyOverwritesFiveFields ==
    written # None =>
        LET doc == written[1]
        IN /\ DOMAIN doc = DOMAIN default_layer_template \cup {"name", "techniques"}
           /\ \A k \in DOMAIN default_layer_template \ {"domain", "description", "filters"} :
                 doc[k] = default_layer_template[k]
           /\ DOMAIN doc.filters = {"platforms"}
           /\ doc.name = args.name
           /\ doc.domain = args.domain
           /\ doc.description = args.description
           /\ doc.techniques = LayerTechniques(worksheet, ColumnMap(worksheet[1], 1, <<>>))
           /\ DOMAIN doc.filters.platforms = ExpectedFilter(args)
           /\ \A p \in ExpectedFilter(args) : doc.filters.platforms[p] = 1
           /\ doc.layout.showID = "false"
           /\ doc.layout.showName = "true"
           /\ doc.hideDisabled = "false"
           /\ doc.showTacticRowBackground = "false"
           /\ doc.selectTechniquesAcrossTactics = "true"
           /\ doc.selectSubtechniquesWithParent = "false"

\* A second invocation wrote a layer with an empty description.
C8_Witness ==
    /\ calls = 2
    /\ written # None
    /\ args.description = ""
    /\ args.platformfilterout # None

\* C9: once platform validation has failed, seed and layer are never entered
\* and no fetch, workbook load or file write has happened or happens.
C9_NoFetchOrWriteAfterFailedValidation ==
    validated = "failed" =>
        /\ pc = "done"
        /\ events = <<>>
        /\ techniques = <<>>
        /\ worksheet = <<>>
        /\ saved = None
        /\ written = None

\* A run of main ended on a failed validation.
C9_Witness ==
    /\ pc = "done"
    /\ validated = "failed"
    /\ Len(stdout) = 1

\* C10: in the saved workbook, 'techniquesToDataSources' has one row per
\* (technique, data source) pair of the kept techniques, in order, and nothing
\* else; 'dataSources' has one row per distinct data-source name of the kept
\* techniques, no name twice, and no other name.
C10_DataSourceSheets ==
    saved # None =>
        LET pairs == KeptPairs(techniques, args, 1)
            s2 == saved[1].techniquesToDataSources
            s3 == saved[1].dataSources
        IN /\ DataRows(s2) = {r + 1 : r \in 1..Len(pairs)}
           /\ \A r \in 1..Len(pairs) :
                 /\ DOMAIN s2 \cap {rc \in DOMAIN s2 : rc[1] = r + 1} = {<<r + 1, 1>>, <<r + 1, 2>>}
                 /\ s2[<<r + 1, 1>>] = pairs[r][1]
                 /\ s2[<<r + 1, 2>>] = pairs[r][2]
           /\ DataRows(s3) = {r + 1 : r \in 1..Cardinality(KeptDataSources(techniques, args))}
           /\ {s3[<<r, 1>>] : r \in DataRows(s3)} = KeptDataSources(techniques, args)
           /\ \A rc \in DOMAIN s3 : rc[2] = 1

\* A workbook was saved where two kept techniques share a data source and a
\* skipped technique has a data source of its own.
C10_Witness ==
    /\ saved # None
    /\ \E i, j \in 1..Len(techniques) :
          /\ i < j
          /\ Kept(techniques[i], args) /\ Kept(techniques[j], args)
          /\ Range(DataSourcesOf(techniques[i])) \cap Range(DataSourcesOf(techniques[j])) # {}
    /\ \E i \in 1..Len(techniques) :
          /\ ~Kept(techniques[i], args)
          /\ ~(Range(DataSourcesOf(techniques[i])) \subseteq KeptDataSources(techniques, args))

====
